---- MODULE Spec2Model ----
(***************************************************************************)
(* A model of FileManager (src/main.py): bulk_rename, sort_files and       *)
(* find_duplicates acting on one directory tree, with the report they      *)
(* accumulate.                                                             *)
(*                                                                         *)
(* A file name is a sequence of one-character strings; a path is a         *)
(* sequence of names relative to the directory the operation is given      *)
(* (<<>> is that directory itself).  A file's content is a sequence of     *)
(* bytes.  The loops of the three operations advance one iteration per     *)
(* step, so that every outcome of each filesystem call, and in SpecDupExt  *)
(* every interleaving with another process, is a behaviour.                *)
(***************************************************************************)
EXTENDS Integers, Sequences, FiniteSets, TLC

VARIABLES
    fs,               \* the tree below the directory: path -> entry
    report,           \* FileManager.report
    pc,               \* where the running operation is ("idle": none runs)
    args,             \* the running (or last) call's arguments
    todo,             \* what the loop's iterator has still to yield
    hash_map,         \* find_duplicates: digest -> files, in insertion order
    scanned_count,    \* find_duplicates
    duplicates_found, \* find_duplicates
    removed_count,    \* find_duplicates
    space_freed,      \* find_duplicates
    file_size,        \* find_duplicates: size of the current group's first file
    gi,               \* find_duplicates: index of the current group
    fi,               \* find_duplicates: index of the current member
    renamed_count,    \* bulk_rename
    error_count,      \* bulk_rename, sort_files
    moved_files,      \* sort_files: category -> count
    fs0,              \* history: the tree when the running (last) call began
    order0,           \* history: the order in which that call listed the tree
    appended,         \* history: the lines add_to_report got during that call
    history,          \* history: one record per call that has returned
    failed,           \* history: files at which a filesystem call raised in that call
    externals         \* history: steps taken by another process

dupVars == <<hash_map, scanned_count, duplicates_found, removed_count,
             space_freed, file_size, gi, fi>>
batchVars == <<renamed_count, error_count, moved_files>>
ghostVars == <<fs0, order0, appended, history, failed, externals>>
vars == <<fs, report, pc, args, todo, dupVars, batchVars, ghostVars>>

(***************************************************************************)
(* Bounds of the model.                                                    *)
(***************************************************************************)
MaxFiles == 4        \* files in the tree find_duplicates is run on
MaxRenameFiles == 3  \* files in the directory bulk_rename is run on
MaxSortFiles == 3    \* files directly in the directory sort_files is run on
MaxExternal == 1     \* steps of the other process (SpecDupExt)
MaxCalls == 2        \* operations called one after the other (Spec)

(***************************************************************************)
(* Sequences and strings.                                                  *)
(***************************************************************************)
Range(s) == {s[i] : i \in 1..Len(s)}

Perms(S) == {s \in [1..Cardinality(S) -> S] : Range(s) = S}

Last(s) == s[Len(s)]

RECURSIVE SumSeq(_)
SumSeq(s) == IF s = <<>> THEN 0 ELSE Head(s) + SumSeq(Tail(s))

RECURSIVE SumOver(_, _)
SumOver(f, S) ==
    IF S = {} THEN 0
    ELSE LET x == CHOOSE y \in S : TRUE IN f[x] + SumOver(f, S \ {x})

StartsWith(s, p) == Len(p) <= Len(s) /\ SubSeq(s, 1, Len(p)) = p

UpperCase == <<"A","B","C","D","E","F","G","H","I","J","K","L","M","N","O","P","Q","R","S","T","U","V","W","X","Y","Z">>
LowerCase == <<"a","b","c","d","e","f","g","h","i","j","k","l","m","n","o","p","q","r","s","t","u","v","w","x","y","z">>

\* str.lower(), one character
LowerChar(c) ==
    IF \E i \in 1..Len(UpperCase) : UpperCase[i] = c
    THEN LowerCase[CHOOSE i \in 1..Len(UpperCase) : UpperCase[i] = c]
    ELSE c

\* str.lower()
Lower(s) == [i \in 1..Len(s) |-> LowerChar(s[i])]

Digits == <<"0","1","2","3","4","5","6","7","8","9">>

\* str(n) for n >= 0, as the f-string formats the counter
RECURSIVE DecStr(_)
DecStr(n) ==
    IF n < 10 THEN <<Digits[n + 1]>>
    ELSE DecStr(n \div 10) \o <<Digits[(n % 10) + 1]>>

\* the characters of the model's names in code point order
Ascii == <<"(", ".", "0","1","2","3","4","5","6","7","8","9">> \o UpperCase
         \o <<"_">> \o LowerCase

Ord(c) == CHOOSE i \in 1..Len(Ascii) : Ascii[i] = c

\* s < t as Python compares strings
RECURSIVE StrLess(_, _)
StrLess(s, t) ==
    IF t = <<>> THEN FALSE
    ELSE IF s = <<>> THEN TRUE
    ELSE IF Head(s) # Head(t) THEN Ord(Head(s)) < Ord(Head(t))
    ELSE StrLess(Tail(s), Tail(t))

\* sorted(S) for a set of strings
RECURSIVE SortedStrs(_)
SortedStrs(S) ==
    IF S = {} THEN <<>>
    ELSE LET m == CHOOSE x \in S : \A y \in S \ {x} : StrLess(x, y)
         IN <<m>> \o SortedStrs(S \ {m})

\* str.replace(old, new): the occurrences of old, left to right, not overlapping;
\* an empty old matches before every character and at the end
RECURSIVE Replace(_, _, _)
Replace(s, old, new) ==
    IF s = <<>> THEN (IF old = <<>> THEN new ELSE <<>>)
    ELSE IF old = <<>> THEN new \o <<Head(s)>> \o Replace(Tail(s), old, new)
    ELSE IF StartsWith(s, old)
         THEN new \o Replace(SubSeq(s, Len(old) + 1, Len(s)), old, new)
         ELSE <<Head(s)>> \o Replace(Tail(s), old, new)

\* The regular expressions of the model: a sequence of characters in which "."
\* matches any character and "(" is never closed.
ReCompiles(pattern) == \A i \in 1..Len(pattern) : pattern[i] # "("

ReMatchesAt(s, pattern) ==
    /\ Len(pattern) <= Len(s)
    /\ \A i \in 1..Len(pattern) : pattern[i] = "." \/ pattern[i] = s[i]

\* re.sub(pattern, repl, s) for such a pattern and a repl of plain characters
RECURSIVE ReSub(_, _, _)
ReSub(pattern, repl, s) ==
    IF s = <<>> THEN (IF pattern = <<>> THEN repl ELSE <<>>)
    ELSE IF pattern = <<>> THEN repl \o <<Head(s)>> \o ReSub(pattern, repl, Tail(s))
    ELSE IF ReMatchesAt(s, pattern)
         THEN repl \o ReSub(pattern, repl, SubSeq(s, Len(pattern) + 1, Len(s)))
         ELSE <<Head(s)>> \o ReSub(pattern, repl, Tail(s))

\* str.rfind('.'), counting from 1 (0: none)
RFindDot(name) ==
    IF \E i \in 1..Len(name) : name[i] = "."
    THEN CHOOSE i \in 1..Len(name) :
            name[i] = "." /\ \A j \in (i + 1)..Len(name) : name[j] # "."
    ELSE 0

\* PurePath.suffix
Suffix(name) ==
    LET i == RFindDot(name)
    IN IF 1 < i /\ i < Len(name) THEN SubSeq(name, i, Len(name)) ELSE <<>>

\* PurePath.stem
Stem(name) ==
    LET i == RFindDot(name)
    IN IF 1 < i /\ i < Len(name) THEN SubSeq(name, 1, i - 1) ELSE name

(***************************************************************************)
(* The filesystem.                                                         *)
(***************************************************************************)
FileEntry(content, readable) ==
    [type |-> "file", content |-> content, readable |-> readable]
DirEntry == [type |-> "dir", content |-> <<>>, readable |-> TRUE]

\* Path.exists()
Exists(f, p) == p = <<>> \/ p \in DOMAIN f

\* Path.is_file()
IsFile(f, p) == p \in DOMAIN f /\ f[p].type = "file"

\* Path.is_dir()
IsDir(f, p) == p = <<>> \/ (p \in DOMAIN f /\ f[p].type = "dir")

Files(f) == {p \in DOMAIN f : f[p].type = "file"}

\* Path.stat().st_size
StSize(f, p) == Len(f[p].content)

\* (mutant) nothing is removed
UnlinkedNothing(f, p) == f

\* the tree without p
Unlinked(f, p) == [q \in DOMAIN f \ {p} |-> f[q]]

\* the tree with the entry at p moved to q (os.rename, q free)
Renamed(f, p, q) ==
    [r \in (DOMAIN f \ {p}) \cup {q} |-> IF r = q THEN f[p] ELSE f[r]]

\* the tree with a new directory at p
WithDir(f, p) == [r \in DOMAIN f \cup {p} |-> IF r = p THEN DirEntry ELSE f[r]]

\* Path.iterdir(): the entries directly in the directory
IterDir(f) == {p \in DOMAIN f : Len(p) = 1}

\* Path.rglob('*'): every entry below the directory, at any depth
RGlob(f) == DOMAIN f

\* The orders in which an iterator may yield the entries S: the filesystem
\* decides.  Both loops skip what is not a file, so the files are taken in
\* every order and the directories are put in front of them.
RECURSIVE SeqOf(_)
SeqOf(S) == IF S = {} THEN <<>>
            ELSE LET x == CHOOSE y \in S : TRUE IN <<x>> \o SeqOf(S \ {x})

Listings(f, S) ==
    {SeqOf({p \in S : ~IsFile(f, p)}) \o files : files \in Perms({p \in S : IsFile(f, p)})}

Reverse(s) == [i \in 1..Len(s) |-> s[Len(s) + 1 - i]]

\* The entries S in the order of the sequence pool
RECURSIVE Along(_, _)
Along(pool, S) ==
    IF pool = <<>> THEN <<>>
    ELSE (IF Head(pool) \in S THEN <<Head(pool)>> ELSE <<>>) \o Along(Tail(pool), S)

\* The directory argument: one that exists, one that does not.
Directories == {"D", "missing"}
DirExists(directory) == directory = "D"

(***************************************************************************)
(* The report.                                                             *)
(***************************************************************************)
Line(k, p, q, n, m) == [k |-> k, p |-> p, q |-> q, n |-> n, m |-> m]
Msg(k) == Line(k, <<>>, <<>>, 0, 0)

\* (mutant) the report is not cleared
ClearReportForgotten == report

\* FileManager.clear_report
ClearReport == <<>>

\* FileManager.add_to_report
AddToReport(rep, message) == Append(rep, message)

RECURSIVE AddAll(_, _)
AddAll(rep, messages) ==
    IF messages = <<>> THEN rep
    ELSE AddAll(AddToReport(rep, Head(messages)), Tail(messages))

LinesOf(rep, k) == {i \in 1..Len(rep) : rep[i].k = k}

(***************************************************************************)
(* get_file_hash.  hashlib.md5 is modelled by a digest that, like MD5 on   *)
(* the contents the model draws, gives different contents different        *)
(* digests; it is fed the file block by block as the code feeds it.        *)
(***************************************************************************)
block_size == 65536

None == -1

Md5New == 1

RECURSIVE Md5Update(_, _)
Md5Update(h, data) ==
    IF data = <<>> THEN h
    ELSE Md5Update(h * 257 + Head(data) + 1, Tail(data))

RECURSIVE ReadBlocks(_, _)
ReadBlocks(hasher, rest) ==
    LET data == SubSeq(rest, 1, IF Len(rest) < block_size THEN Len(rest) ELSE block_size)
    IN IF data = <<>> THEN hasher
       ELSE ReadBlocks(Md5Update(hasher, data),
                       SubSeq(rest, Len(data) + 1, Len(rest)))

\* open(filepath, 'rb') succeeds
CanOpen(f, filepath) == IsFile(f, filepath) /\ f[filepath].readable

GetFileHash(f, filepath) ==
    IF CanOpen(f, filepath)
    THEN ReadBlocks(Md5New, f[filepath].content)
    ELSE None

\* "if file_hash:"
Truthy(file_hash) == file_hash # None

(***************************************************************************)
(* What every operation does on entry and on return.                       *)
(***************************************************************************)
Args(op, directory, remove_duplicates, pattern, replacement, use_regex, create_subdirs) ==
    [op |-> op, directory |-> directory, remove_duplicates |-> remove_duplicates,
     pattern |-> pattern, replacement |-> replacement, use_regex |-> use_regex,
     create_subdirs |-> create_subdirs]

NoArgs == Args("none", "D", FALSE, <<>>, <<>>, FALSE, FALSE)

\* the operation's first statements: clear_report(), then its opening lines
Begin(messages) ==
    /\ report' = AddAll(ClearReport, messages)
    /\ appended' = messages

Emit(messages) ==
    /\ report' = AddAll(report, messages)
    /\ appended' = appended \o messages

\* the operation returns to its caller
Return(a, groups, errs) ==
    /\ pc' = "idle"
    /\ history' = Append(history, [args |-> a, groups |-> groups, failed |-> errs,
                                   rep |-> report'])

\* locals of an operation that is not running hold these values
ResetLocals ==
    /\ hash_map' = <<>>
    /\ scanned_count' = 0
    /\ duplicates_found' = <<>>
    /\ removed_count' = 0
    /\ space_freed' = 0
    /\ file_size' = 0
    /\ gi' = 0
    /\ fi' = 0
    /\ renamed_count' = 0
    /\ error_count' = 0
    /\ moved_files' = <<>>

\* An operation is called when none runs.
CanCall == pc = "idle"

(***************************************************************************)
(* find_duplicates                                                         *)
(***************************************************************************)
\* hash_map[file_hash].append(item), hash_map a defaultdict(list)
HashMapAppend(hm, file_hash, item) ==
    IF \E i \in 1..Len(hm) : hm[i].h = file_hash
    THEN [i \in 1..Len(hm) |->
            IF hm[i].h = file_hash
            THEN [h |-> file_hash, files |-> Append(hm[i].files, item)]
            ELSE hm[i]]
    ELSE Append(hm, [h |-> file_hash, files |-> <<item>>])

\* (mutant) "len(files) > 0": a single file makes a group
RECURSIVE DuplicatesInAll(_)
DuplicatesInAll(hm) ==
    IF hm = <<>> THEN <<>>
    ELSE (IF Len(Head(hm).files) > 0 THEN <<Head(hm).files>> ELSE <<>>)
         \o DuplicatesInAll(Tail(hm))

\* "for file_hash, files in hash_map.items(): if len(files) > 1: ..."
RECURSIVE DuplicatesIn(_)
DuplicatesIn(hm) ==
    IF hm = <<>> THEN <<>>
    ELSE (IF Len(Head(hm).files) > 1 THEN <<Head(hm).files>> ELSE <<>>)
         \o DuplicatesIn(Tail(hm))

\* (mutant) the second member is the one kept
IsKeptSecond(i) == i = 1

\* "if i == 0": the member that is kept
IsKept(i) == i = 0

\* (mutant) the size is not accumulated
CountRemovalOnly(count, freed, size) == <<count + 1, freed>>

\* removed_count += 1; space_freed += file_size
CountRemoval(count, freed, size) == <<count + 1, freed + size>>

\* sum(len(group) - 1 for group in duplicates_found)
TotalDuplicates(found) == SumSeq([g \in 1..Len(found) |-> Len(found[g]) - 1])

FindDuplicates(directory, remove_duplicates, listing) ==
    /\ CanCall
    /\ args' = Args("find_duplicates", directory, remove_duplicates, <<>>, <<>>, FALSE, FALSE)
    /\ ResetLocals
    /\ fs0' = fs
    /\ failed' = {}
    /\ IF ~DirExists(directory)
       THEN /\ Begin(<<Msg("Scanning"), Line("RemoveFlag", <<>>, <<>>,
                                             IF remove_duplicates THEN 1 ELSE 0, 0),
                       Msg("NoSuchDirectory")>>)
            /\ order0' = <<>>
            /\ todo' = <<>>
            /\ Return(args', <<>>, {})
       ELSE /\ Begin(<<Msg("Scanning"), Line("RemoveFlag", <<>>, <<>>,
                                             IF remove_duplicates THEN 1 ELSE 0, 0),
                       Msg("Calculating")>>)
            /\ order0' = listing
            /\ todo' = listing
            /\ pc' = "scan"
            /\ UNCHANGED history
    /\ UNCHANGED <<fs, externals>>

\* one iteration of "for item in path.rglob('*')"
ScanStep ==
    /\ pc = "scan"
    /\ todo # <<>>
    /\ LET item == Head(todo)
           file_hash == GetFileHash(fs, item)
       IN IF IsFile(fs, item) /\ Truthy(file_hash)
          THEN /\ hash_map' = HashMapAppend(hash_map, file_hash, item)
               /\ scanned_count' = scanned_count + 1
          ELSE UNCHANGED <<hash_map, scanned_count>>
    /\ todo' = Tail(todo)
    /\ UNCHANGED <<fs, report, pc, args, duplicates_found, removed_count, space_freed,
                   file_size, gi, fi, batchVars, ghostVars>>

\* the scan is over: "Scanned n files", the groups, and the early return
ScanDone ==
    /\ pc = "scan"
    /\ todo = <<>>
    /\ LET found == DuplicatesIn(hash_map)
       IN /\ duplicates_found' = found
          /\ IF found = <<>>
             THEN /\ Emit(<<Line("Scanned", <<>>, <<>>, scanned_count, 0),
                            Msg("NoDuplicates")>>)
                  /\ Return(args, found, failed)
                  /\ UNCHANGED gi
             ELSE /\ Emit(<<Line("Scanned", <<>>, <<>>, scanned_count, 0)>>)
                  /\ pc' = "group"
                  /\ gi' = 1
                  /\ UNCHANGED history
    /\ UNCHANGED <<fs, args, todo, hash_map, scanned_count, removed_count, space_freed,
                   file_size, fi, batchVars, fs0, order0, failed, externals>>

\* "for dup_group in duplicates_found": the size of the first member and the
\* group's line; stat() of a file that is gone raises, and nothing catches it
GroupStep ==
    /\ pc = "group"
    /\ gi <= Len(duplicates_found)
    /\ LET dup_group == duplicates_found[gi]
       IN IF ~Exists(fs, dup_group[1])
          THEN /\ pc' = "raised"
               /\ UNCHANGED <<report, appended, file_size, fi>>
          ELSE /\ file_size' = StSize(fs, dup_group[1])
               /\ Emit(<<Line("Group", <<>>, <<>>, Len(dup_group), file_size')>>)
               /\ fi' = 0
               /\ pc' = "member"
    /\ UNCHANGED <<fs, args, todo, hash_map, scanned_count, duplicates_found,
                   removed_count, space_freed, gi, batchVars, fs0, order0, history,
                   failed, externals>>

\* one iteration of "for i, file_path in enumerate(dup_group)"
MemberStep ==
    /\ pc = "member"
    /\ LET dup_group == duplicates_found[gi]
           i == fi
           file_path == dup_group[i + 1]
       IN /\ IF IsKept(i)
             THEN /\ Emit(<<Line("KEEP", file_path, <<>>, 0, 0)>>)
                  /\ UNCHANGED <<fs, removed_count, space_freed, failed>>
             ELSE IF args.remove_duplicates
             THEN \E ok \in BOOLEAN :
                    IF ok /\ IsFile(fs, file_path)
                    THEN /\ fs' = Unlinked(fs, file_path)
                         /\ Emit(<<Line("REMOVED", file_path, <<>>, 0, 0)>>)
                         /\ removed_count' = CountRemoval(removed_count, space_freed, file_size)[1]
                         /\ space_freed' = CountRemoval(removed_count, space_freed, file_size)[2]
                         /\ UNCHANGED failed
                    ELSE /\ Emit(<<Line("ERROR", file_path, <<>>, 0, 0)>>)
                         /\ failed' = failed \cup {file_path}
                         /\ UNCHANGED <<fs, removed_count, space_freed>>
             ELSE /\ Emit(<<Line("DUPLICATE", file_path, <<>>, 0, 0)>>)
                  /\ UNCHANGED <<fs, removed_count, space_freed, failed>>
          /\ IF i + 1 < Len(dup_group)
             THEN /\ fi' = i + 1
                  /\ UNCHANGED <<pc, gi>>
             ELSE /\ fi' = 0
                  /\ gi' = gi + 1
                  /\ pc' = "group"
    /\ UNCHANGED <<args, todo, hash_map, scanned_count, duplicates_found, file_size,
                   batchVars, fs0, order0, history, externals>>

\* the summary lines and the return
Summary ==
    /\ pc = "group"
    /\ gi > Len(duplicates_found)
    /\ Emit(<<Msg("Summary"),
              Line("GroupsFound", <<>>, <<>>, Len(duplicates_found), 0),
              Line("TotalDuplicates", <<>>, <<>>, TotalDuplicates(duplicates_found), 0)>>
            \o (IF args.remove_duplicates
                THEN <<Line("FilesRemoved", <<>>, <<>>, removed_count, 0),
                       Line("SpaceFreed", <<>>, <<>>, space_freed, 0)>>
                ELSE <<>>))
    /\ Return(args, duplicates_found, failed)
    /\ UNCHANGED <<fs, args, todo, dupVars, batchVars, fs0, order0, failed, externals>>

(***************************************************************************)
(* bulk_rename                                                             *)
(***************************************************************************)
\* re.sub(pattern, replacement, old_name) or old_name.replace(pattern, replacement)
NewName(old_name, pattern, replacement, use_regex) ==
    IF use_regex THEN ReSub(pattern, replacement, old_name)
    ELSE Replace(old_name, pattern, replacement)

\* parent / name: joining an empty name gives the parent itself
Joined(parent, name) == IF name = <<>> THEN parent ELSE parent \o <<name>>

\* (mutant) the target is never found to exist
TargetExistsNever(f, new_path) == FALSE

\* "if new_path.exists()"
TargetExists(f, new_path) == Exists(f, new_path)

RenameSummary(renamed, errors) == Line("RenameSummary", <<>>, <<>>, renamed, errors)

BulkRename(directory, pattern, replacement, use_regex, listing) ==
    /\ CanCall
    /\ args' = Args("bulk_rename", directory, FALSE, pattern, replacement, use_regex, FALSE)
    /\ ResetLocals
    /\ fs0' = fs
    /\ failed' = {}
    /\ IF ~DirExists(directory)
       THEN /\ Begin(<<Msg("StartingRename"), Line("Pattern", pattern, replacement, 0, 0),
                       Line("RegexMode", <<>>, <<>>, IF use_regex THEN 1 ELSE 0, 0),
                       Msg("NoSuchDirectory")>>)
            /\ order0' = <<>>
            /\ todo' = <<>>
            /\ Return(args', <<>>, {})
       ELSE /\ Begin(<<Msg("StartingRename"), Line("Pattern", pattern, replacement, 0, 0),
                       Line("RegexMode", <<>>, <<>>, IF use_regex THEN 1 ELSE 0, 0)>>)
            /\ order0' = listing
            /\ todo' = listing
            /\ pc' = "rename"
            /\ UNCHANGED history
    /\ UNCHANGED <<fs, externals>>

\* one iteration of "for item in path.iterdir()"
RenameStep ==
    /\ pc = "rename"
    /\ todo # <<>>
    /\ LET item == Head(todo)
           old_name == Last(item)
           new_name == NewName(old_name, args.pattern, args.replacement, args.use_regex)
           new_path == Joined(SubSeq(item, 1, Len(item) - 1), new_name)
       IN IF ~IsFile(fs, item)
          THEN /\ todo' = Tail(todo)
               /\ UNCHANGED <<fs, report, appended, pc, history, renamed_count,
                              error_count, failed>>
          ELSE IF args.use_regex /\ ~ReCompiles(args.pattern)
          THEN \* re.error leaves the loop for the outer handler
               /\ Emit(<<Msg("ErrorDuringRename"),
                         RenameSummary(renamed_count, error_count)>>)
               /\ Return(args, <<>>, failed)
               /\ todo' = Tail(todo)
               /\ UNCHANGED <<fs, renamed_count, error_count, failed>>
          ELSE IF new_name = old_name
          THEN /\ todo' = Tail(todo)
               /\ UNCHANGED <<fs, report, appended, pc, history, renamed_count,
                              error_count, failed>>
          ELSE IF TargetExists(fs, new_path)
          THEN /\ Emit(<<Line("Skipped", item, <<>>, 0, 0)>>)
               /\ error_count' = error_count + 1
               /\ todo' = Tail(todo)
               /\ UNCHANGED <<fs, pc, history, renamed_count, failed>>
          ELSE \E ok \in BOOLEAN :
                 /\ IF ok
                    THEN /\ fs' = Renamed(fs, item, new_path)
                         /\ Emit(<<Line("Renamed", item, new_path, 0, 0)>>)
                         /\ renamed_count' = renamed_count + 1
                         /\ UNCHANGED <<error_count, failed>>
                    ELSE /\ Emit(<<Line("ErrorRenaming", item, <<>>, 0, 0)>>)
                         /\ error_count' = error_count + 1
                         /\ failed' = failed \cup {item}
                         /\ UNCHANGED <<fs, renamed_count>>
                 /\ todo' = Tail(todo)
                 /\ UNCHANGED <<pc, history>>
    /\ UNCHANGED <<args, dupVars, moved_files, fs0, order0, externals>>

\* the loop is over: the summary line and the return
RenameDone ==
    /\ pc = "rename"
    /\ todo = <<>>
    /\ Emit(<<RenameSummary(renamed_count, error_count)>>)
    /\ Return(args, <<>>, failed)
    /\ UNCHANGED <<fs, args, todo, dupVars, batchVars, fs0, order0, failed, externals>>

(***************************************************************************)
(* sort_files                                                              *)
(***************************************************************************)
file_categories ==
    <<
     [cat |-> <<"I","m","a","g","e","s">>,
      extensions |-> {<<".","j","p","g">>, <<".","j","p","e","g">>, <<".","p","n","g">>,
                      <<".","g","i","f">>, <<".","b","m","p">>, <<".","s","v","g">>,
                      <<".","w","e","b","p">>, <<".","i","c","o">>}],
     [cat |-> <<"V","i","d","e","o","s">>,
      extensions |-> {<<".","m","p","4">>, <<".","a","v","i">>, <<".","m","k","v">>,
                      <<".","m","o","v">>, <<".","w","m","v">>, <<".","f","l","v">>,
                      <<".","w","e","b","m">>}],
     [cat |-> <<"A","u","d","i","o">>,
      extensions |-> {<<".","m","p","3">>, <<".","w","a","v">>, <<".","f","l","a","c">>,
                      <<".","a","a","c">>, <<".","o","g","g">>, <<".","m","4","a">>,
                      <<".","w","m","a">>}],
     [cat |-> <<"D","o","c","u","m","e","n","t","s">>,
      extensions |-> {<<".","p","d","f">>, <<".","d","o","c">>, <<".","d","o","c","x">>,
                      <<".","t","x","t">>, <<".","r","t","f">>, <<".","o","d","t">>,
                      <<".","x","l","s">>, <<".","x","l","s","x">>, <<".","p","p","t">>,
                      <<".","p","p","t","x">>}],
     [cat |-> <<"A","r","c","h","i","v","e","s">>,
      extensions |-> {<<".","z","i","p">>, <<".","r","a","r">>, <<".","7","z">>,
                      <<".","t","a","r">>, <<".","g","z">>, <<".","b","z","2">>}],
     [cat |-> <<"C","o","d","e">>,
      extensions |-> {<<".","p","y">>, <<".","j","a","v","a">>, <<".","c","p","p">>,
                      <<".","c">>, <<".","j","s">>, <<".","h","t","m","l">>,
                      <<".","c","s","s">>, <<".","p","h","p">>, <<".","r","b">>,
                      <<".","g","o">>}],
     [cat |-> <<"E","x","e","c","u","t","a","b","l","e","s">>,
      extensions |-> {<<".","e","x","e">>, <<".","m","s","i">>, <<".","a","p","p">>,
                      <<".","d","m","g">>, <<".","d","e","b">>, <<".","r","p","m">>}],
     [cat |-> <<"O","t","h","e","r","s">>,
      extensions |-> {}]
    >>

Others == <<"O","t","h","e","r","s">>

\* "for cat, extensions in self.file_categories.items(): if ext in extensions: ..."
Categorize(ext) ==
    IF \E i \in 1..Len(file_categories) : ext \in file_categories[i].extensions
    THEN file_categories[CHOOSE i \in 1..Len(file_categories) :
             /\ ext \in file_categories[i].extensions
             /\ \A j \in 1..(i - 1) : ext \notin file_categories[j].extensions].cat
    ELSE Others

\* ext = item.suffix.lower()
SortExt(name) == Lower(Suffix(name))

\* counter = 1
FirstCounter == 1

\* "while destination.exists(): new_name = f'{name_stem}_{counter}{ext}' ..."
RECURSIVE FreeDestination(_, _, _, _, _)
FreeDestination(f, category_path, name_stem, ext, counter) ==
    LET destination == category_path \o <<name_stem \o <<"_">> \o DecStr(counter) \o ext>>
    IN IF Exists(f, destination)
       THEN FreeDestination(f, category_path, name_stem, ext, counter + 1)
       ELSE destination

\* the destination of item: lines 157-166
Destination(f, category_path, item, ext) ==
    LET destination == category_path \o <<Last(item)>>
    IN IF Exists(f, destination) /\ destination # item
       THEN FreeDestination(f, category_path, Stem(Last(item)), ext, FirstCounter)
       ELSE destination

\* moved_files[category] += 1, moved_files a defaultdict(int)
Counted(mf, category) ==
    [c \in DOMAIN mf \cup {category} |->
        IF c = category THEN (IF c \in DOMAIN mf THEN mf[c] ELSE 0) + 1 ELSE mf[c]]

\* the category summary, sorted by category, and the total line
RECURSIVE CategoryLines(_, _)
CategoryLines(mf, cats) ==
    IF cats = <<>> THEN <<>>
    ELSE <<Line("CategoryCount", <<Head(cats)>>, <<>>, mf[Head(cats)], 0)>>
         \o CategoryLines(mf, Tail(cats))

SortSummary(mf, errors) ==
    <<Msg("CategorySummary")>>
    \o CategoryLines(mf, SortedStrs(DOMAIN mf))
    \o <<Line("Total", <<>>, <<>>, SumOver(mf, DOMAIN mf), errors)>>

SortFiles(source_directory, create_subdirs, listing) ==
    /\ CanCall
    /\ args' = Args("sort_files", source_directory, FALSE, <<>>, <<>>, FALSE, create_subdirs)
    /\ ResetLocals
    /\ fs0' = fs
    /\ failed' = {}
    /\ IF ~DirExists(source_directory)
       THEN /\ Begin(<<Msg("StartingSort"), Msg("NoSuchDirectory")>>)
            /\ order0' = <<>>
            /\ todo' = <<>>
            /\ Return(args', <<>>, {})
       ELSE /\ Begin(<<Msg("StartingSort")>>)
            /\ order0' = listing
            /\ todo' = listing
            /\ pc' = "sort"
            /\ UNCHANGED history
    /\ UNCHANGED <<fs, externals>>

\* one iteration of "for item in path.iterdir()"
SortStep ==
    /\ pc = "sort"
    /\ todo # <<>>
    /\ LET item == Head(todo)
           ext == SortExt(Last(item))
           category == Categorize(ext)
           category_path == IF args.create_subdirs THEN <<category>> ELSE <<>>
           made == IF Exists(fs, category_path) THEN fs ELSE WithDir(fs, category_path)
           destination == Destination(made, category_path, item, ext)
       IN IF ~IsFile(fs, item)
          THEN /\ todo' = Tail(todo)
               /\ UNCHANGED <<fs, report, appended, pc, history, error_count,
                              moved_files, failed>>
          ELSE IF args.create_subdirs /\ Exists(fs, category_path) /\ ~IsDir(fs, category_path)
          THEN \* mkdir(exist_ok=True) raises FileExistsError: the outer handler
               /\ Emit(<<Msg("ErrorDuringSorting")>> \o SortSummary(moved_files, error_count))
               /\ failed' = failed \cup {item}
               /\ Return(args, <<>>, failed')
               /\ todo' = Tail(todo)
               /\ UNCHANGED <<fs, error_count, moved_files>>
          ELSE IF destination = item
          THEN /\ fs' = made
               /\ todo' = Tail(todo)
               /\ UNCHANGED <<report, appended, pc, history, error_count,
                              moved_files, failed>>
          ELSE \E ok \in BOOLEAN :
                 /\ IF ok
                    THEN /\ fs' = Renamed(made, item, destination)
                         /\ Emit(<<Line("Moved", item, <<category>>, 0, 0)>>)
                         /\ moved_files' = Counted(moved_files, category)
                         /\ UNCHANGED <<error_count, failed>>
                    ELSE /\ fs' = made
                         /\ Emit(<<Line("ErrorMoving", item, <<>>, 0, 0)>>)
                         /\ error_count' = error_count + 1
                         /\ failed' = failed \cup {item}
                         /\ UNCHANGED moved_files
                 /\ todo' = Tail(todo)
                 /\ UNCHANGED <<pc, history>>
    /\ UNCHANGED <<args, dupVars, renamed_count, fs0, order0, externals>>

\* the loop is over: the category summary, the total and the return
SortDone ==
    /\ pc = "sort"
    /\ todo = <<>>
    /\ Emit(SortSummary(moved_files, error_count))
    /\ Return(args, <<>>, failed)
    /\ UNCHANGED <<fs, args, todo, dupVars, batchVars, fs0, order0, failed, externals>>

(***************************************************************************)
(* The paths of the trees find_duplicates is run on, and the orders in     *)
(* which rglob may yield them: the filesystem decides the order; the model *)
(* takes the order of DupPool and its reverse, and assigns the contents to *)
(* the paths in every way, so that each relative order of a group's        *)
(* members occurs at either depth.                                         *)
(***************************************************************************)
Contents == { <<>>, <<7, 7>> }

DupPool == << << <<"a">> >>, << <<"s">>, <<"a">> >>, << <<"b">> >>,
              << <<"s">>, <<"b">> >>, << <<"c">> >>, << <<"s">>, <<"c">> >> >>

DupListings(f) ==
    LET dirs == SeqOf({p \in RGlob(f) : ~IsFile(f, p)})
        files == Along(DupPool, Files(f))
    IN {dirs \o files, dirs \o Reverse(files)}

(***************************************************************************)
(* Another process deleting or renaming a file while an operation runs.    *)
(***************************************************************************)
ExternalDelete ==
    /\ pc \notin {"idle", "raised"}
    /\ externals < MaxExternal
    /\ \E p \in Files(fs) : fs' = Unlinked(fs, p)
    /\ externals' = externals + 1
    /\ UNCHANGED <<report, pc, args, todo, dupVars, batchVars, fs0, order0,
                   appended, history, failed>>

ExternalRename ==
    /\ pc \notin {"idle", "raised"}
    /\ externals < MaxExternal
    /\ \E p \in Files(fs), q \in Range(DupPool) :
          /\ ~Exists(fs, q)
          /\ SubSeq(q, 1, Len(q) - 1) = SubSeq(p, 1, Len(p) - 1)
          /\ fs' = Renamed(fs, p, q)
    /\ externals' = externals + 1
    /\ UNCHANGED <<report, pc, args, todo, dupVars, batchVars, fs0, order0,
                   appended, history, failed>>

(***************************************************************************)
(* Trees the duplicate finder is run on: up to MaxFiles files, some in a   *)
(* subdirectory, every assignment of contents, any of them unreadable.     *)
(***************************************************************************)
\* the directories that the paths of P lie in
Parents(P) == {SubSeq(p, 1, Len(p) - 1) : p \in {q \in P : Len(q) > 1}}

Tree(P, content, unreadable) ==
    [p \in P \cup Parents(P) |->
        IF p \in P THEN FileEntry(content[p], p \notin unreadable) ELSE DirEntry]

DupTrees ==
    UNION { LET P == {DupPool[i] : i \in 1..k}
            IN {Tree(P, c, U) : c \in [P -> Contents], U \in SUBSET P}
          : k \in 1..(IF MaxFiles < Len(DupPool) THEN MaxFiles ELSE Len(DupPool)) }

InitCommon ==
    /\ report = <<>>
    /\ pc = "idle"
    /\ args = NoArgs
    /\ todo = <<>>
    /\ hash_map = <<>>
    /\ scanned_count = 0
    /\ duplicates_found = <<>>
    /\ removed_count = 0
    /\ space_freed = 0
    /\ file_size = 0
    /\ gi = 0
    /\ fi = 0
    /\ renamed_count = 0
    /\ error_count = 0
    /\ moved_files = <<>>
    /\ fs0 = fs
    /\ order0 = <<>>
    /\ appended = <<>>
    /\ history = <<>>
    /\ failed = {}
    /\ externals = 0

InitDup == fs \in DupTrees /\ InitCommon

\* find_duplicates, and find_duplicates once more right after it
DupCall ==
    /\ CanCall
    /\ Len(history) < 2
    /\ \E directory \in Directories, remove_duplicates \in BOOLEAN,
          listing \in DupListings(fs) :
           FindDuplicates(directory, remove_duplicates, listing)

NextDup == DupCall \/ ScanStep \/ ScanDone \/ GroupStep \/ MemberStep \/ Summary

SpecDup == InitDup /\ [][NextDup]_vars

NextDupExt == NextDup \/ ExternalDelete \/ ExternalRename

SpecDupExt == InitDup /\ [][NextDupExt]_vars

(***************************************************************************)
(* Directories bulk_rename is run on: up to MaxRenameFiles files with      *)
(* names over {a, b}, with or without a subdirectory, each file with a     *)
(* content of its own; and the patterns and replacements it is given.      *)
(***************************************************************************)
RenamePool == << <<"a">>, <<"b">>, <<"a","a">>, <<"a","b">>, <<"b","a">>, <<"b","b">> >>

Flat(F, D) ==
    [p \in {<<n>> : n \in F \cup D} |->
        IF p[1] \in D THEN DirEntry
        ELSE FileEntry(<<CHOOSE i \in 1..Len(RenamePool) : RenamePool[i] = p[1]>>, TRUE)]

RenameTrees ==
    {Flat(F, D) : F \in {G \in SUBSET Range(RenamePool) :
                            Cardinality(G) >= 1 /\ Cardinality(G) <= MaxRenameFiles},
                  D \in SUBSET { <<"b","b">> }}

Patterns == { <<>>, <<"a">>, <<"b">>, <<".">>, <<"a","b">>, <<"a",".">>, <<"(">> }

Replacements == { <<>>, <<"a">>, <<"b">> }

InitRename == fs \in RenameTrees /\ InitCommon

\* one call of bulk_rename
RenameCall ==
    /\ CanCall
    /\ history = <<>>
    /\ \E listing \in Listings(fs, IterDir(fs)) :
          \E directory \in Directories, pattern \in Patterns,
             replacement \in Replacements, use_regex \in BOOLEAN :
              BulkRename(directory, pattern, replacement, use_regex, listing)

NextRename == RenameCall \/ RenameStep \/ RenameDone

SpecRename == InitRename /\ [][NextRename]_vars

(***************************************************************************)
(* Directories sort_files is run on: up to MaxSortFiles files, among them  *)
(* an upper-case extension, a name without extension and a file named as   *)
(* a category, with or without a Code subdirectory that already holds      *)
(* files of the same names; each file with a content of its own.           *)
(***************************************************************************)
SortPool == << <<"a",".","c">>, <<"a",".","C">>, <<"b">>, <<"C","o","d","e">>,
               <<"a","_","1",".","c">> >>

CodeDir == <<"C","o","d","e">>

InCodePool == << <<"a",".","c">>, <<"a",".","C">>, <<"a","_","1",".","c">> >>

SortTree(F, hasDir, Q) ==
    [p \in {<<n>> : n \in F} \cup (IF hasDir THEN {<<CodeDir>>} ELSE {})
           \cup {<<CodeDir, n>> : n \in Q} |->
        IF Len(p) = 2
        THEN FileEntry(<<10 + (CHOOSE i \in 1..Len(InCodePool) : InCodePool[i] = p[2])>>, TRUE)
        ELSE IF hasDir /\ p = <<CodeDir>> THEN DirEntry
        ELSE FileEntry(<<CHOOSE i \in 1..Len(SortPool) : SortPool[i] = p[1]>>, TRUE)]

SortTrees ==
    UNION { {SortTree(F, FALSE, {})}
            \cup (IF CodeDir \in F THEN {}
                  ELSE {SortTree(F, TRUE, Q) : Q \in SUBSET Range(InCodePool)})
          : F \in {G \in SUBSET Range(SortPool) :
                      Cardinality(G) >= 1 /\ Cardinality(G) <= MaxSortFiles} }

InitSort == fs \in SortTrees /\ InitCommon

\* main() and the GUI call sort_files(directory): create_subdirs is its default
AnySortCall ==
    \E source_directory \in Directories, listing \in Listings(fs, IterDir(fs)) :
        SortFiles(source_directory, TRUE, listing)

\* sort_files, and sort_files once more right after it
SortCall == CanCall /\ Len(history) < 2 /\ AnySortCall

NextSort == SortCall \/ SortStep \/ SortDone

SpecSort == InitSort /\ [][NextSort]_vars

(***************************************************************************)
(* What the claims about find_duplicates speak of, stated on the tree the  *)
(* call began with (fs0) and the order it listed it in (order0), not on    *)
(* the operation's own hash_map.                                           *)
(***************************************************************************)
Pos(seq, x) == CHOOSE i \in 1..Len(seq) : seq[i] = x

\* the files with the content of p: byte-identical files
ContentClass(f, p) == {q \in Files(f) : f[q].content = f[p].content}

\* those of them whose hash could be computed
HashedClass(f, p) == {q \in ContentClass(f, p) : f[q].readable}

\* the member of C met first by the traversal
FirstOf(ord, C) == CHOOSE p \in C : \A q \in C : Pos(ord, p) <= Pos(ord, q)

\* p is a later member of a group of two or more files with equal hash
NonCanonical(f, ord, p) ==
    /\ f[p].readable
    /\ Cardinality(HashedClass(f, p)) >= 2
    /\ p # FirstOf(ord, HashedClass(f, p))

Deleted == Files(fs0) \ DOMAIN fs

\* a call find_duplicates(D, ...) has returned and none has begun since
DupReturned ==
    /\ pc = "idle"
    /\ history # <<>>
    /\ args.op = "find_duplicates"
    /\ args.directory = "D"

\* the groups as sets of files
GroupSets(found) == {Range(found[g]) : g \in 1..Len(found)}

\* a group lists its files in the order the traversal met them
InTraversalOrder(ord, group) ==
    \A i, j \in 1..Len(group) : i < j => Pos(ord, group[i]) < Pos(ord, group[j])

Kept(rep) == {rep[i].p : i \in LinesOf(rep, "KEEP")}

GroupsAre(classes) ==
    /\ GroupSets(duplicates_found) = classes
    /\ Len(duplicates_found) = Cardinality(classes)
    /\ \A g \in 1..Len(duplicates_found) :
          InTraversalOrder(order0, duplicates_found[g])
    /\ Cardinality(LinesOf(report, "KEEP")) = Cardinality(classes)
    /\ Kept(report) = {FirstOf(order0, C) : C \in classes}
    /\ classes = {} =>
          /\ LinesOf(report, "KEEP") \cup LinesOf(report, "DUPLICATE") = {}
          /\ Last(report).k = "NoDuplicates"

OneLine(rep, k) == rep[CHOOSE i \in LinesOf(rep, k) : TRUE]

\* C1: find_duplicates(D, remove_duplicates=True) deletes only later members of a
\* group of two or more files with equal hash, whatever the unlink calls do: the
\* first-encountered member of every group and every file of unique content are
\* still there (and with remove_duplicates=False nothing is deleted).
C1_OnlyNonCanonicalDeleted ==
    \A p \in Deleted : args.remove_duplicates /\ NonCanonical(fs0, order0, p)

\* a removing call has returned having deleted a duplicate, next to a file of
\* unique content
C1_Witness ==
    /\ DupReturned
    /\ args.remove_duplicates
    /\ Deleted # {}
    /\ \E p \in Files(fs0) : HashedClass(fs0, p) = {p}

C4_CountersMatchDeletions ==
    (DupReturned /\ args.remove_duplicates /\ duplicates_found # <<>>) =>
        /\ OneLine(report, "FilesRemoved").n = Cardinality(Deleted)
        /\ OneLine(report, "SpaceFreed").n =
              SumOver([p \in Deleted |-> StSize(fs0, p)], Deleted)
        /\ Cardinality(LinesOf(report, "ERROR")) = Cardinality(failed)
        /\ Cardinality(LinesOf(report, "REMOVED")) = Cardinality(Deleted)
        /\ failed \subseteq Files(fs)
        /\ OneLine(report, "TotalDuplicates").n =
              SumSeq([g \in 1..Len(duplicates_found) |-> Len(duplicates_found[g]) - 1])
        /\ OneLine(report, "TotalDuplicates").n =
              Cardinality(Deleted) + Cardinality(failed)
        /\ OneLine(report, "FilesRemoved").n <= OneLine(report, "TotalDuplicates").n

\* one unlink succeeded on a file of two bytes and one failed
C4_Witness ==
    /\ DupReturned
    /\ args.remove_duplicates
    /\ removed_count = 1
    /\ space_freed = 2
    /\ Cardinality(failed) = 1

\* C8: whatever another process deletes or renames while find_duplicates runs, no
\* exception leaves find_duplicates.
C8_NoExceptionEscapes == pc # "raised"

(***************************************************************************)
(* bulk_rename, sort_files and find_duplicates called one after the other  *)
(* on one FileManager: on the trees above of at most two readable files    *)
(* at two depths, on a flat directory and on one with a file named as a    *)
(* category.                                                               *)
(***************************************************************************)
AllTrees ==
    {t \in DupTrees : Cardinality(Files(t)) <= 2 /\ \A p \in Files(t) : t[p].readable}
    \cup {Flat({<<"a">>, <<"b">>}, {}),
          SortTree({<<"a",".","c">>, <<"C","o","d","e">>}, FALSE, {})}

AnyPatterns == { <<"a">>, <<"(">> }

AnyReplacements == { <<"b">> }

Init == fs \in AllTrees /\ InitCommon

AnyDupCall ==
    \E listing \in Listings(fs, RGlob(fs)) :
        \E directory \in Directories, remove_duplicates \in BOOLEAN :
            FindDuplicates(directory, remove_duplicates, listing)

AnyRenameCall ==
    \E listing \in Listings(fs, IterDir(fs)) :
        \E directory \in Directories, pattern \in AnyPatterns,
           replacement \in AnyReplacements, use_regex \in BOOLEAN :
            BulkRename(directory, pattern, replacement, use_regex, listing)

Call ==
    /\ CanCall
    /\ Len(history) < MaxCalls
    /\ (AnyDupCall \/ AnyRenameCall \/ AnySortCall)

Next ==
    \/ Call
    \/ ScanStep \/ ScanDone \/ GroupStep \/ MemberStep \/ Summary
    \/ RenameStep \/ RenameDone
    \/ SortStep \/ SortDone

Spec == Init /\ [][Next]_vars

(***************************************************************************)
(* What the claims about bulk_rename, sort_files and the report speak of.  *)
(***************************************************************************)
\* bulk_rename is about to process a file and computes a new name for it
RenamePending ==
    /\ pc = "rename"
    /\ todo # <<>>
    /\ IsFile(fs, Head(todo))
    /\ args.use_regex => ReCompiles(args.pattern)

PendingNewName ==
    NewName(Last(Head(todo)), args.pattern, args.replacement, args.use_regex)

\* every entry but p is where and what it was
OthersUntouched(p) == \A q \in DOMAIN fs \ {p} : q \in DOMAIN fs' /\ fs'[q] = fs[q]

\* the file at p is now at q, and only there
MovedTo(p, q) ==
    /\ p \notin DOMAIN fs'
    /\ q \in DOMAIN fs'
    /\ fs'[q] = fs[p]
    /\ DOMAIN fs' = (DOMAIN fs \ {p}) \cup {q}

\* C5 as claimed: a file whose new name differs from its old one keeps its name,
\* with a Skipped line, when an entry of the new name is in the directory, and is
\* renamed to the new name otherwise; no other entry changes.
C5_SkipsExistingElseRenames ==
    [][(RenamePending /\ PendingNewName # Last(Head(todo))) =>
          /\ OthersUntouched(Head(todo))
          /\ IF <<PendingNewName>> \in DOMAIN fs
             THEN /\ fs' = fs
                  /\ report' = Append(report, Line("Skipped", Head(todo), <<>>, 0, 0))
             ELSE MovedTo(Head(todo), <<PendingNewName>>)]_vars

\* C5 amended: the file is skipped when the path directory/new name exists, which
\* it also does when the new name is empty; otherwise the rename is attempted, and
\* the file has the new name unless the rename call itself raises, in which case it
\* keeps its old name and an error line is appended.  No other entry ever changes.
C5_SkipsExistingElseTriesRename ==
    [][(RenamePending /\ PendingNewName # Last(Head(todo))) =>
          /\ OthersUntouched(Head(todo))
          /\ IF <<PendingNewName>> \in DOMAIN fs \/ PendingNewName = <<>>
             THEN /\ fs' = fs
                  /\ report' = Append(report, Line("Skipped", Head(todo), <<>>, 0, 0))
             ELSE \/ /\ MovedTo(Head(todo), <<PendingNewName>>)
                     /\ report' = Append(report, Line("Renamed", Head(todo),
                                                      <<PendingNewName>>, 0, 0))
                  \/ /\ fs' = fs
                     /\ report' = Append(report, Line("ErrorRenaming", Head(todo),
                                                      <<>>, 0, 0))]_vars

\* one file was skipped for a collision and another renamed, in one call
C5_Witness ==
    /\ pc = "idle"
    /\ args.op = "bulk_rename"
    /\ LinesOf(report, "Skipped") # {}
    /\ LinesOf(report, "Renamed") # {}
    /\ \E i \in LinesOf(report, "Skipped") : report[i].p \in DOMAIN fs

\* sort_files is about to process a file
SortPending == pc = "sort" /\ todo # <<>> /\ IsFile(fs, Head(todo))

\* <dir>/<category>/<base>_N<ext>, base and ext as in the name
Suffixed(category, name, N) ==
    <<category, Stem(name) \o <<"_">> \o DecStr(N) \o Suffix(name)>>

\* C6: a file whose destination <dir>/<category>/<name> is occupied is moved to
\* <dir>/<category>/<base>_N<ext>, N the smallest integer >= 1 whose path is free,
\* the extension as in the original name; the occupying file is unchanged.
C6_CollisionKeepsExtension ==
    [][LET item == Head(todo)
           name == Last(item)
           category == Categorize(Lower(Suffix(name)))
       IN (/\ SortPending
           /\ <<category, name>> \in DOMAIN fs
           /\ item \notin DOMAIN fs')
          => /\ \E N \in 1..(Cardinality(DOMAIN fs) + 1) :
                   /\ Suffixed(category, name, N) \notin DOMAIN fs
                   /\ \A M \in 1..(N - 1) : Suffixed(category, name, M) \in DOMAIN fs
                   /\ MovedTo(item, Suffixed(category, name, N))
             /\ fs'[<<category, name>>] = fs[<<category, name>>]]_vars

RootFiles(f) == {p \in Files(f) : Len(p) = 1}

\* a call sort_files(D) has returned and none has begun since
SortReturned ==
    /\ pc = "idle"
    /\ history # <<>>
    /\ args.op = "sort_files"
    /\ args.directory = "D"

\* C7: a failure while one file is processed (creating its category subdirectory,
\* moving it) gives a report line and an error count, and every other file directly
\* in the directory is still moved.
C7_FailureDoesNotStopBatch ==
    SortReturned =>
        /\ \A p \in RootFiles(fs0) \ failed :
              /\ p \notin DOMAIN fs
              /\ \E i \in LinesOf(report, "Moved") : report[i].p = p
        /\ error_count = Cardinality(failed)

\* C9: report holds exactly the lines the most recent call appended, in order.
C9_ReportIsOfLastCall == report = appended

\* a second call, of another operation than the first, whose report differs from
\* the first call's, which had lines of its own
C9_Witness ==
    /\ pc = "idle"
    /\ Len(history) >= 2
    /\ history[1].args.op # history[2].args.op
    /\ Len(history[1].rep) >= 4
    /\ report # <<>>
    /\ \E i \in 1..Len(history[1].rep) :
          \A j \in 1..Len(report) : report[j] # history[1].rep[i]

ContentCount(f, c) == Cardinality({p \in Files(f) : f[p].content = c})

AllContents(f) == {f[p].content : p \in Files(f)}

\* C10: sort_files neither loses nor overwrites a file (the multiset of contents
\* under the directory stays what it was); when no move fails no regular file is
\* left directly in the directory, and a sort_files called right after moves none.
C10_SortConservesAndCompletes ==
    SortReturned =>
        /\ \A c \in AllContents(fs0) \cup AllContents(fs) :
              ContentCount(fs, c) = ContentCount(fs0, c)
        /\ LinesOf(report, "ErrorMoving") = {} => RootFiles(fs) = {}
        /\ (/\ Len(history) = 2
            /\ history[1].args.op = "sort_files"
            /\ history[1].args.directory = "D"
            /\ LinesOf(history[1].rep, "ErrorMoving") = {})
           => LinesOf(report, "Moved") = {}

\* C10 apart from C7's case: the same, of calls in which no mkdir raised.
C10_UnlessSortingAborted ==
    (/\ SortReturned
     /\ LinesOf(report, "ErrorDuringSorting") = {}
     /\ \A i \in 1..Len(history) : LinesOf(history[i].rep, "ErrorDuringSorting") = {})
    => /\ \A c \in AllContents(fs0) \cup AllContents(fs) :
             ContentCount(fs, c) = ContentCount(fs0, c)
       /\ LinesOf(report, "ErrorMoving") = {} => RootFiles(fs) = {}
       /\ (/\ Len(history) = 2
           /\ history[1].args.op = "sort_files"
           /\ history[1].args.directory = "D"
           /\ LinesOf(history[1].rep, "ErrorMoving") = {})
          => LinesOf(report, "Moved") = {}

====
